---- MODULE Spec2Model ----
(***************************************************************************)
(* EC4X core: the hexagonal galaxy generator (StarMap::populate and        *)
(* StarMap::generate_lanes), the graph mutators (add_system, add_lane),    *)
(* the connectivity check (is_connected) and the fleet-constrained A*      *)
(* search (astar), modelled from core/src/{hex,system,ship,fleet,starmap}. *)
(*                                                                         *)
(* A StarMap value is a record with the fields of the Rust struct.  Every  *)
(* method is an operator on a context record                               *)
(*     [map |-> the StarMap, rng |-> thread_rng state, panic |-> message]  *)
(* so that a panic raised in the middle of a method leaves the partly      *)
(* modified map behind, as unwinding does.  panic = "" means no panic.     *)
(***************************************************************************)
EXTENDS Integers, Sequences, FiniteSets, TLC

(***************************************************************************)
(* Bounds of the model.                                                    *)
(***************************************************************************)
\* largest player count given to StarMap::new in the generation runs
MaxPlayers == 7
\* the thread-local generator is a periodic stream of this many draws
RngPeriod == 2
\* number of distinct RandomState keys (HashMap iteration orders) tried
HashKeys == 2
\* most calls of populate() and of generate_lanes() in one run
MaxPopulate == 1
MaxGenerate == 2
\* most ships in a fleet given to astar
MaxFleet == 1
MaxAddSystem == 3
MaxAddLane == 2
MaxCalls == 4
\* most ships of a fleet given to can_traverse on its own
MaxShips == 3

\* config.rs: "Minimum number of players is two"
MinPlayers == 2

LaneTypes == {"Major", "Minor", "Restricted"}

None == << >>
Some(x) == << x >>

Abs(x) == IF x < 0 THEN -x ELSE x
Min2(a, b) == IF a < b THEN a ELSE b
Max2(a, b) == IF a < b THEN b ELSE a
Range(s) == {s[i] : i \in 1..Len(s)}

(***************************************************************************)
(* Loops.  FoldSeq is `for x in s { st = Op(st, x) }` and While is         *)
(* `while !Done(st) { st = Step(st) }` over context records; both stop at  *)
(* a panic.  They split the iterations in halves to keep the evaluation    *)
(* shallow; the iterations run in order.                                   *)
(***************************************************************************)
FoldSeq(Op(_, _), st0, s) ==
    LET RECURSIVE F(_, _, _)
        F(st, lo, hi) ==
            IF st.panic # "" \/ lo > hi THEN st
            ELSE IF lo = hi THEN Op(st, s[lo])
            ELSE LET mid == (lo + hi) \div 2
                     left == F(st, lo, mid)
                 IN  F(left, mid + 1, hi)
    IN  F(st0, 1, Len(s))

While(Done(_), Step(_), st0) ==
    LET RECURSIVE RunN(_, _)
        RunN(st, n) ==
            IF st.panic # "" \/ Done(st) THEN st
            ELSE IF n = 1 THEN Step(st)
            ELSE LET h == n \div 2
                     left == RunN(st, h)
                 IN  RunN(left, n - h)
        RECURSIVE W(_, _)
        W(st, n) == IF st.panic # "" \/ Done(st) THEN st ELSE W(RunN(st, n), 2 * n)
    IN  W(st0, 8)

(***************************************************************************)
(* hex.rs                                                                  *)
(***************************************************************************)
Hex(q, r) == [q |-> q, r |-> r]

\* variant of to_id whose row stride is max_coord, one short of the number of
\* r values of a row (C11 does not hold of it)
to_id_short_stride(hex, num_rings) ==
    LET max_coord == num_rings * 2
        q_shifted == hex.q + num_rings
        r_shifted == hex.r + num_rings
    IN  q_shifted * max_coord + r_shifted

to_id(hex, num_rings) ==
    LET max_coord == num_rings * 2
        q_shifted == hex.q + num_rings
        r_shifted == hex.r + num_rings
    IN  q_shifted * (max_coord + 1) + r_shifted

distance(a, b) ==
    (Abs(a.q - b.q) + Abs(a.r - b.r) + Abs(a.q + a.r - b.q - b.r)) \div 2

\* the r range of one q column of within_radius
RowOf(center, radius, q) ==
    LET r1 == Max2(-radius, -q - radius)
        r2 == Min2(radius, -q + radius)
    IN  [i \in 1..(r2 - r1 + 1) |-> Hex(center.q + q, center.r + r1 + i - 1)]

RECURSIVE RowsFrom(_, _, _)
RowsFrom(center, radius, q) ==
    IF q > radius THEN << >>
    ELSE RowOf(center, radius, q) \o RowsFrom(center, radius, q + 1)

within_radius(center, radius) == RowsFrom(center, radius, -radius)

directions ==
    << <<1, 0>>, <<1, -1>>, <<0, -1>>, <<-1, 0>>, <<-1, 1>>, <<0, 1>> >>

neighbor(hex, direction) ==
    LET d == directions[(direction % 6) + 1]
    IN  Hex(hex.q + d[1], hex.r + d[2])

(***************************************************************************)
(* system.rs                                                               *)
(***************************************************************************)
System_new(coords, ring, num_rings, player) ==
    [id |-> to_id(coords, num_rings), coords |-> coords, ring |-> ring,
     player |-> player]

(***************************************************************************)
(* ship.rs, fleet.rs.  A ship is [ship_type, is_crippled]; a fleet is the  *)
(* sequence of its ships.                                                  *)
(***************************************************************************)
ShipTypes == {"Military", "Spacelift"}

Ship_new(ship_type, is_crippled) ==
    [ship_type |-> ship_type, is_crippled |-> is_crippled]

\* variant of can_cross_restricted_lane that does not look at is_crippled
\* (C12 does not hold of it)
can_cross_restricted_lane_crippled(ship) == ship.ship_type = "Military"

can_cross_restricted_lane(ship) ==
    IF ship.ship_type = "Military" THEN ~ship.is_crippled ELSE FALSE

can_traverse(fleet, lane_type) ==
    IF lane_type = "Restricted"
    THEN \A i \in 1..Len(fleet) : can_cross_restricted_lane(fleet[i])
    ELSE TRUE

(***************************************************************************)
(* rand.  thread_rng() hands out the one generator of the thread: a        *)
(* periodic stream of draws chosen when the run starts.  gen_range(0..n)   *)
(* reduces the next draw modulo n.                                         *)
(***************************************************************************)
Seeds == [1..RngPeriod -> 0..2]

\* the generator before its first use, and thread_rng(): the first call in a
\* thread seeds the generator, later calls hand out the same one
Unseeded == [stream |-> << >>, pos |-> 0]

SeedChoices(rng) == IF rng = Unseeded THEN Seeds ELSE {rng.stream}

thread_rng(rng, seed) == IF rng = Unseeded THEN [stream |-> seed, pos |-> 0] ELSE rng

gen_range(rng, n) == rng.stream[rng.pos + 1] % n

rng_step(rng) == [rng EXCEPT !.pos = (@ + 1) % Len(rng.stream)]

Swap(s, i, j) == [s EXCEPT ![i] = s[j], ![j] = s[i]]

\* SliceRandom::shuffle: for i in (1..len).rev() { swap(i, gen_index(rng, i + 1)) }
\* (0-based i); returns [seq, rng]
RECURSIVE ShuffleFrom(_, _, _)
ShuffleFrom(s, rng, i) ==
    IF i < 1 THEN [seq |-> s, rng |-> rng]
    ELSE ShuffleFrom(Swap(s, i + 1, gen_range(rng, i + 1) + 1), rng_step(rng), i - 1)

shuffle(s, rng) == ShuffleFrom(s, rng, Len(s) - 1)

(***************************************************************************)
(* std::collections::HashMap.  The iteration order of a map is fixed by    *)
(* the keys of its RandomState; it is modelled as the order of the ids by  *)
(* a multiplicative hash under the key (key 0: ascending ids).             *)
(***************************************************************************)
hash(id, key) == (id * (100 * key + 1)) % 307

\* the elements of a finite set of naturals, ascending
SetToSeq(S0) ==
    LET RECURSIVE F(_, _, _)
        F(S, lo, hi) ==
            IF S = {} THEN << >>
            ELSE IF lo = hi THEN << lo >>
            ELSE LET mid == (lo + hi) \div 2
                 IN  F({x \in S : x <= mid}, lo, mid)
                        \o F({x \in S : x > mid}, mid + 1, hi)
    IN  IF S0 = {} THEN << >>
        ELSE F(S0, CHOOSE x \in S0 : \A y \in S0 : x <= y,
                   CHOOSE x \in S0 : \A y \in S0 : y <= x)

IterOrder(S, key) ==
    SortSeq(SetToSeq(S), LAMBDA a, b : hash(a, key) < hash(b, key))

(***************************************************************************)
(* petgraph: Graph<(), LaneType, Undirected>.  nodes is the node count     *)
(* (node indices 0..nodes-1), edges the edge list in insertion order, each *)
(* edge [source, target, weight]; out[n] and inc[n] are the node's lists   *)
(* of outgoing and incoming edge indices, newest first (Node::next).       *)
(***************************************************************************)
Graph_new == [nodes |-> 0, edges |-> << >>, out |-> << >>, inc |-> << >>]

add_node(graph) ==
    [graph EXCEPT !.nodes = @ + 1,
                  !.out = (graph.nodes :> << >>) @@ @,
                  !.inc = (graph.nodes :> << >>) @@ @]

add_edge(graph, a, b, w) ==
    LET e == Len(graph.edges) + 1
    IN  [graph EXCEPT !.edges = Append(@, [source |-> a, target |-> b, weight |-> w]),
                      !.out[a] = << e >> \o @,
                      !.inc[b] = << e >> \o @]

\* Graph::edges(a): the edges leaving a, then the edges entering a (a self-loop
\* once); each as [target |-> other end, weight]
graph_edges(graph, a) ==
    LET out == graph.out[a]
        inc == SelectSeq(graph.inc[a], LAMBDA e : graph.edges[e].source # a)
    IN  [i \in 1..Len(out) |->
            [target |-> graph.edges[out[i]].target, weight |-> graph.edges[out[i]].weight]]
        \o [i \in 1..Len(inc) |->
            [target |-> graph.edges[inc[i]].source, weight |-> graph.edges[inc[i]].weight]]

\* variant of graph_neighbors that follows a lane only from its source to its
\* target, as a directed graph would (C10 does not hold of it)
graph_neighbors_outgoing(graph, a) ==
    [i \in 1..Len(graph.out[a]) |-> graph.edges[graph.out[a][i]].target]

\* Graph::neighbors(a), in the order of edges(a)
graph_neighbors(graph, a) ==
    LET es == graph_edges(graph, a) IN [i \in 1..Len(es) |-> es[i].target]

\* variant of contains_edge that looks for an edge from a to b only (C7 does
\* not hold of it)
contains_edge_directed(graph, a, b) ==
    \E i \in 1..Len(graph.out[a]) : graph.edges[graph.out[a][i]].target = b

\* Graph::contains_edge(a, b): for an undirected graph, in either direction
contains_edge(graph, a, b) ==
    \E i \in 1..Len(graph_edges(graph, a)) : graph_edges(graph, a)[i].target = b

(***************************************************************************)
(* starmap.rs                                                              *)
(***************************************************************************)
weight(lane_type) ==
    CASE lane_type = "Major" -> 1
      [] lane_type = "Minor" -> 2
      [] lane_type = "Restricted" -> 3

JumpLane(source, destination, lane_type) ==
    [source |-> source, destination |-> destination, lane_type |-> lane_type]

\* graph: petgraph Graph<(), LaneType, Undirected>: node indices 0..nodes-1 and
\* the edge list in insertion order.  hasher: the RandomState of `systems`.
StarMap_new(player_count, key) ==
    [systems |-> << >>,
     lanes |-> << >>,
     graph |-> Graph_new,
     system_id_to_node |-> << >>,
     player_count |-> player_count,
     num_rings |-> player_count,
     hub_id |-> 0,
     hasher |-> key]

Ctx(map, rng, panic) == [map |-> map, rng |-> rng, panic |-> panic]

Panic(st, msg) == IF st.panic = "" THEN [st EXCEPT !.panic = msg] ELSE st

add_system(map, system) ==
    [map EXCEPT
        !.systems = (system.id :> system) @@ @,
        !.graph = add_node(@),
        !.system_id_to_node = (system.id :> map.graph.nodes) @@ @]

\* systems.values() / systems.iter() in iteration order
SystemIds(map) == IterOrder(DOMAIN map.systems, map.hasher)

count_adjacent(map, hex) ==
    Cardinality({dir \in 0..5 :
        \E id \in DOMAIN map.systems :
            map.systems[id].coords = neighbor(hex, dir)})

\* the order of f64 atan2(r, q): (-pi, 0) for r < 0, then 0, then (0, pi), then pi
AngleClass(h) ==
    IF h.r < 0 THEN 0
    ELSE IF h.r > 0 THEN 2
    ELSE IF h.q >= 0 THEN 1 ELSE 3

AngleLess(a, b) ==
    \/ AngleClass(a) < AngleClass(b)
    \/ /\ AngleClass(a) = AngleClass(b)
       /\ AngleClass(a) \in {0, 2}
       /\ a.q * b.r - a.r * b.q > 0

\* the body of `for hex in hexes` of populate
AddHex(st, hex) ==
    IF hex = Hex(0, 0) THEN st
    ELSE LET center == Hex(0, 0)
             ring == distance(hex, center)
             system == System_new(hex, ring, st.map.num_rings, None)
         IN  [st EXCEPT !.map = add_system(st.map, system)]

\* (i as f64 / player_count as f64 * total as f64).round() as usize % total
HomeIndex(i, player_count, total_hexes) ==
    ((2 * i * total_hexes + player_count) \div (2 * player_count)) % total_hexes

\* the body of `for (i, hex) in home_hexes.iter().enumerate()`; entry = <<i, hex>>
AssignPlayer(st, entry) ==
    LET system_id == to_id(entry[2], st.map.num_rings)
    IN  IF system_id \notin DOMAIN st.map.systems
        THEN Panic(st, "System not found")
        ELSE [st EXCEPT !.map.systems[system_id].player = Some(entry[1])]

\* variant of select_home_hex that spaces the homes evenly for every player
\* count and never asks for a vertex (C8 does not hold of it)
select_home_hex_evenly(i, player_count, sorted_outer_hexes, vertex_hexes) ==
    LET total_hexes == Len(sorted_outer_hexes)
        index == HomeIndex(i, player_count, total_hexes)
    IN  sorted_outer_hexes[(index % total_hexes) + 1]

\* the body of `for i in 0..self.player_count`: the home hex of player i
select_home_hex(i, player_count, sorted_outer_hexes, vertex_hexes) ==
    LET total_hexes == Len(sorted_outer_hexes)
        use_vertices_only == player_count <= 6
        index == HomeIndex(i, player_count, total_hexes)
    IN  IF use_vertices_only
        THEN vertex_hexes[(i % Len(vertex_hexes)) + 1]
        ELSE sorted_outer_hexes[(index % total_hexes) + 1]

populate(st) ==
    LET center == Hex(0, 0)
        hub == System_new(center, 0, st.map.num_rings, None)
        st1 == [st EXCEPT !.map = add_system([st.map EXCEPT !.hub_id = hub.id], hub)]
        st2 == FoldSeq(AddHex, st1, within_radius(center, st1.map.num_rings))
        m2 == st2.map
        ids == SystemIds(m2)
        outer_ids == SelectSeq(ids, LAMBDA id : m2.systems[id].ring = m2.num_rings)
        outer_ring_hexes == [k \in 1..Len(outer_ids) |-> m2.systems[outer_ids[k]].coords]
        sorted_outer_hexes == SortSeq(outer_ring_hexes, AngleLess)
        use_vertices_only == m2.player_count <= 6
        vertex_hexes ==
            SelectSeq(sorted_outer_hexes, LAMBDA h : count_adjacent(m2, h) = 3)
        home_hexes ==
            [k \in 1..m2.player_count |->
                << k - 1, select_home_hex(k - 1, m2.player_count,
                                          sorted_outer_hexes, vertex_hexes) >>]
    IN  IF use_vertices_only /\ Len(vertex_hexes) < m2.player_count
        THEN Panic(st2, "Not enough vertices with 3 neighbors for player home systems.")
        ELSE FoldSeq(AssignPlayer, st2, home_hexes)

(***************************************************************************)
(* starmap.rs: lanes                                                       *)
(***************************************************************************)
add_lane(st, source, destination, lane_type) ==
    IF source \notin DOMAIN st.map.system_id_to_node
    THEN Panic(st, "Source node not found")
    ELSE IF destination \notin DOMAIN st.map.system_id_to_node
    THEN Panic(st, "Destination node not found")
    ELSE LET source_node == st.map.system_id_to_node[source]
             dest_node == st.map.system_id_to_node[destination]
         IN  IF ~contains_edge(st.map.graph, source_node, dest_node)
             THEN [st EXCEPT
                     !.map.graph = add_edge(@, source_node, dest_node, lane_type),
                     !.map.lanes = Append(@, JumpLane(source, destination, lane_type))]
             ELSE st

\* the ids mapped to a node: none means the expect() of
\* get_system_id_by_node_index panics
NodeIds(map, node_index) ==
    {id \in DOMAIN map.system_id_to_node : map.system_id_to_node[id] = node_index}

get_system_id_by_node_index(map, node_index) ==
    CHOOSE id \in NodeIds(map, node_index) : TRUE

\* systems.values().find(|s| s.coords == coords).map(|s| s.id), as an Option
find_by_coords(map, coords) ==
    LET found == {id \in DOMAIN map.systems : map.systems[id].coords = coords}
    IN  IF found = {} THEN None ELSE Some(IterOrder(found, map.hasher)[1])

\* (0..6).filter_map(|dir| find neighbour system id)
grid_neighbor_ids(map, coords) ==
    LET opt == [d \in 1..6 |-> find_by_coords(map, neighbor(coords, d - 1))]
        some == SelectSeq(opt, LAMBDA o : o # None)
    IN  [k \in 1..Len(some) |-> some[k][1]]

\* graph.neighbors(node of id).map(|n| get_system_id_by_node_index(n)): the set
\* of ids mapped to each neighbouring node (empty where the expect() panics)
neighbor_id_sets(map, id) ==
    {NodeIds(map, n) : n \in Range(graph_neighbors(map.graph, map.system_id_to_node[id]))}

\* a neighbour node that no id maps to: get_system_id_by_node_index panics
lookup_fault(id_sets) == {} \in id_sets

existing_neighbors(id_sets) == {CHOOSE id \in ids : TRUE : ids \in id_sets}

\* variant of connect_hub that makes the hub lanes Minor (C5 does not hold of
\* it)
connect_hub_minor(st) ==
    IF st.map.hub_id \notin DOMAIN st.map.systems
    THEN Panic(st, "Hub system not found")
    ELSE LET map == st.map
             hub_id == map.hub_id
             hub_coords == map.systems[hub_id].coords
             neighbor_ids ==
                SelectSeq(SystemIds(map), LAMBDA id :
                    /\ map.systems[id].ring = 1
                    /\ distance(map.systems[id].coords, hub_coords) = 1)
         IN  IF Len(neighbor_ids) # 6
             THEN Panic(st, "Hub should have exactly 6 neighbors in the first ring")
             ELSE FoldSeq(LAMBDA s, nid : add_lane(s, hub_id, nid, "Minor"),
                          st, neighbor_ids)

connect_hub(st) ==
    IF st.map.hub_id \notin DOMAIN st.map.systems
    THEN Panic(st, "Hub system not found")
    ELSE LET map == st.map
             hub_id == map.hub_id
             hub_coords == map.systems[hub_id].coords
             neighbor_ids ==
                SelectSeq(SystemIds(map), LAMBDA id :
                    /\ map.systems[id].ring = 1
                    /\ distance(map.systems[id].coords, hub_coords) = 1)
         IN  IF Len(neighbor_ids) # 6
             THEN Panic(st, "Hub should have exactly 6 neighbors in the first ring")
             ELSE FoldSeq(LAMBDA s, nid : add_lane(s, hub_id, nid, "Major"),
                          st, neighbor_ids)

connect_player_system(st, id) ==
    LET map == st.map
        id_sets == neighbor_id_sets(map, id)
        system_coords == map.systems[id].coords
        neighbor_ids == SortSeq(grid_neighbor_ids(map, system_coords),
                                LAMBDA a, b : a < b)
    IN  IF lookup_fault(id_sets)
        THEN Panic(st, "NodeIndex not found in mapping")
        ELSE LET existing == existing_neighbors(id_sets)
                 retained == SelectSeq(neighbor_ids, LAMBDA n : n \notin existing)
                 sh == shuffle(retained, st.rng)
                 neighbors_to_connect == SubSeq(sh.seq, 1, Min2(3, Len(sh.seq)))
                 st1 == [st EXCEPT !.rng = sh.rng]
             IN  IF Len(neighbors_to_connect) < 3
                 THEN Panic(st1, "Player system must have at least 3 neighbors")
                 ELSE FoldSeq(LAMBDA s, nid : add_lane(s, id, nid, "Major"),
                              st1, neighbors_to_connect)

\* match rng.gen_range(0..3) { 0 => Major, 1 => Minor, _ => Restricted }
random_lane_type(rng) ==
    LET x == gen_range(rng, 3)
    IN  IF x = 0 THEN "Major" ELSE IF x = 1 THEN "Minor" ELSE "Restricted"

\* the loop body shared by connect_outer_system and connect_inner_system
connect_random(st, id, neighbor_id) ==
    add_lane([st EXCEPT !.rng = rng_step(@)], id, neighbor_id,
             random_lane_type(st.rng))

connect_outer_system(st, id) ==
    LET map == st.map
        id_sets == neighbor_id_sets(map, id)
        system_coords == map.systems[id].coords
        neighbor_ids == SelectSeq(grid_neighbor_ids(map, system_coords),
                                  LAMBDA nid : nid # id)
    IN  IF lookup_fault(id_sets)
        THEN Panic(st, "NodeIndex not found in mapping")
        ELSE LET existing == existing_neighbors(id_sets)
                 available_neighbors ==
                    SelectSeq(neighbor_ids, LAMBDA n : n \notin existing)
             IN  IF available_neighbors = << >> THEN st
                 ELSE FoldSeq(LAMBDA s, nid : connect_random(s, id, nid),
                              st, available_neighbors)

\* variant of connect_inner_system whose filter is inverted: it keeps the
\* neighbours that already have a lane to the system (C1 does not hold of it)
connect_inner_system_existing(st, id) ==
    LET map == st.map
        id_sets == neighbor_id_sets(map, id)
        system_coords == map.systems[id].coords
        neighbor_ids == SelectSeq(grid_neighbor_ids(map, system_coords),
                                  LAMBDA nid : nid # id)
    IN  IF lookup_fault(id_sets)
        THEN Panic(st, "NodeIndex not found in mapping")
        ELSE LET existing == existing_neighbors(id_sets)
                 available_neighbors ==
                    SelectSeq(neighbor_ids, LAMBDA n : n \in existing)
             IN  FoldSeq(LAMBDA s, nid : connect_random(s, id, nid),
                         st, available_neighbors)

connect_inner_system(st, id) ==
    LET map == st.map
        id_sets == neighbor_id_sets(map, id)
        system_coords == map.systems[id].coords
        neighbor_ids == SelectSeq(grid_neighbor_ids(map, system_coords),
                                  LAMBDA nid : nid # id)
    IN  IF lookup_fault(id_sets)
        THEN Panic(st, "NodeIndex not found in mapping")
        ELSE LET existing == existing_neighbors(id_sets)
                 available_neighbors ==
                    SelectSeq(neighbor_ids, LAMBDA n : n \notin existing)
             IN  FoldSeq(LAMBDA s, nid : connect_random(s, id, nid),
                         st, available_neighbors)

player_system_ids(map) ==
    SelectSeq(SystemIds(map), LAMBDA id : map.systems[id].player # None)

outer_system_ids(map) ==
    SelectSeq(SystemIds(map), LAMBDA id :
        map.systems[id].ring = map.num_rings /\ map.systems[id].player = None)

inner_system_ids(map) ==
    SelectSeq(SystemIds(map), LAMBDA id :
        /\ map.systems[id].ring > 0
        /\ map.systems[id].ring < map.num_rings
        /\ map.systems[id].player = None)

generate_lanes(st) ==
    LET st1 == connect_hub(st)
        st2 == FoldSeq(connect_player_system, st1, player_system_ids(st1.map))
        st3 == FoldSeq(connect_outer_system, st2, outer_system_ids(st2.map))
        st4 == FoldSeq(connect_inner_system, st3, inner_system_ids(st3.map))
    IN  st4

(***************************************************************************)
(* starmap.rs: is_connected.  The search state is [visited, stack, panic]. *)
(***************************************************************************)
dfs_visit(d, nb) ==
    IF nb \in d.visited THEN d
    ELSE [d EXCEPT !.visited = @ \cup {nb}, !.stack = Append(@, nb)]

dfs_step(graph, d) ==
    LET current == d.stack[Len(d.stack)]
        popped == [d EXCEPT !.stack = SubSeq(@, 1, Len(@) - 1)]
    IN  FoldSeq(dfs_visit, popped, graph_neighbors(graph, current))

\* [result |-> the returned bool, panic |-> "" or the message of unwrap()]
is_connected(map) ==
    IF map.hub_id \notin DOMAIN map.system_id_to_node
    THEN [result |-> FALSE, panic |-> "called Option::unwrap() on a None value"]
    ELSE LET start_node == map.system_id_to_node[map.hub_id]
             d0 == [visited |-> {start_node}, stack |-> << start_node >>, panic |-> ""]
             d == While(LAMBDA x : x.stack = << >>,
                        LAMBDA x : dfs_step(map.graph, x), d0)
         IN  [result |-> Cardinality(d.visited) = Cardinality(DOMAIN map.systems),
              panic |-> ""]

(***************************************************************************)
(* starmap.rs: astar.  The search state is                                 *)
(*   [open_set, came_from, g_score, f_score, result, done, panic]          *)
(* open_set is the BinaryHeap of Reverse((f, id)); pop() takes the least   *)
(* pair, by f and then by id.  came_from, g_score and f_score are the      *)
(* HashMaps (functions on the ids inserted so far).  result is the         *)
(* returned Option<Vec<System>>.                                           *)
(***************************************************************************)
PairLess(a, b) == a[1] < b[1] \/ (a[1] = b[1] /\ a[2] < b[2])

\* variant of heap_pop for a heap without Reverse: the greatest pair comes
\* out first (C2 does not hold of it)
heap_pop_greatest(open_set) ==
    CHOOSE a \in open_set : \A b \in open_set : a = b \/ PairLess(b, a)

heap_pop(open_set) == CHOOSE a \in open_set : \A b \in open_set : a = b \/ PairLess(a, b)

\* variant of reconstruct_path without total_path.reverse() (C3 does not hold
\* of it)
reconstruct_path_unreversed(map, came_from, goal_id) ==
    While(LAMBDA x : x.current \notin DOMAIN came_from,
          LAMBDA x : [x EXCEPT
                        !.path = Append(@, map.systems[came_from[x.current]]),
                        !.current = came_from[x.current]],
          [path |-> << map.systems[goal_id] >>, current |-> goal_id,
           panic |-> ""]).path

\* total_path: from the goal back along came_from, then reversed
reconstruct_path(map, came_from, goal_id) ==
    LET w == While(LAMBDA x : x.current \notin DOMAIN came_from,
                   LAMBDA x : [x EXCEPT
                                 !.path = Append(@, map.systems[came_from[x.current]]),
                                 !.current = came_from[x.current]],
                   [path |-> << map.systems[goal_id] >>, current |-> goal_id,
                    panic |-> ""])
        n == Len(w.path)
    IN  [i \in 1..n |-> w.path[n + 1 - i]]

\* variant of astar_relax without the can_traverse test (C4 does not hold of
\* it)
astar_relax_any_lane(map, goal_id, fleet, current, x, edge) ==
    IF NodeIds(map, edge.target) = {}
    THEN Panic(x, "NodeIndex not found in mapping")
    ELSE LET nb == get_system_id_by_node_index(map, edge.target)
             lane_type == edge.weight
             tentative_g_score == x.g_score[current] + weight(lane_type)
         IN  IF nb \in DOMAIN x.g_score /\ tentative_g_score >= x.g_score[nb]
             THEN x
             ELSE LET f == tentative_g_score
                            + distance(map.systems[nb].coords,
                                       map.systems[goal_id].coords)
                  IN  [x EXCEPT
                         !.came_from = (nb :> current) @@ @,
                         !.g_score = (nb :> tentative_g_score) @@ @,
                         !.f_score = (nb :> f) @@ @,
                         !.open_set = @ \cup {<< f, nb >>}]

\* the body of `for edge in self.graph.edges(current_node)`
astar_relax(map, goal_id, fleet, current, x, edge) ==
    IF NodeIds(map, edge.target) = {}
    THEN Panic(x, "NodeIndex not found in mapping")
    ELSE LET nb == get_system_id_by_node_index(map, edge.target)
             lane_type == edge.weight
             tentative_g_score == x.g_score[current] + weight(lane_type)
         IN  IF ~can_traverse(fleet, lane_type) THEN x
             ELSE IF nb \in DOMAIN x.g_score /\ tentative_g_score >= x.g_score[nb]
             THEN x
             ELSE LET f == tentative_g_score
                            + distance(map.systems[nb].coords,
                                       map.systems[goal_id].coords)
                  IN  [x EXCEPT
                         !.came_from = (nb :> current) @@ @,
                         !.g_score = (nb :> tentative_g_score) @@ @,
                         !.f_score = (nb :> f) @@ @,
                         !.open_set = @ \cup {<< f, nb >>}]

\* one turn of `while let Some(Reverse((_, current))) = open_set.pop()`
astar_step(map, goal_id, fleet, x) ==
    IF x.open_set = {} THEN [x EXCEPT !.done = TRUE]
    ELSE LET top == heap_pop(x.open_set)
             current == top[2]
             popped == [x EXCEPT !.open_set = @ \ {top}]
         IN  IF current = goal_id
             THEN [popped EXCEPT
                     !.result = Some(reconstruct_path(map, x.came_from, goal_id)),
                     !.done = TRUE]
             ELSE FoldSeq(LAMBDA y, edge :
                              astar_relax(map, goal_id, fleet, current, y, edge),
                          popped,
                          graph_edges(map.graph, map.system_id_to_node[current]))

\* [result |-> None or Some(path), panic |-> "" or a message]
astar(map, start, goal, fleet) ==
    IF start.id \notin DOMAIN map.systems
    THEN [result |-> None, panic |-> "index on a missing key"]
    ELSE LET start_id == start.id
             goal_id == goal.id
             f0 == distance(map.systems[start_id].coords, goal.coords)
             x0 == [open_set |-> {<< f0, start_id >>},
                    came_from |-> << >>,
                    g_score |-> (start_id :> 0),
                    f_score |-> (start_id :> f0),
                    result |-> None, done |-> FALSE, panic |-> ""]
             x == While(LAMBDA y : y.done,
                        LAMBDA y : astar_step(map, goal_id, fleet, y), x0)
         IN  [result |-> x.result, panic |-> x.panic]

(***************************************************************************)
(* The program state.                                                      *)
(***************************************************************************)
VARIABLES
    star_map,    \* the StarMap
    rng,         \* the thread-local generator behind thread_rng()
    panic,       \* "" or the message of the panic that ended the run
    calls,       \* the sequence of mutator calls made so far (names)
    last         \* the last operation: [op, args, result]

vars == << star_map, rng, panic, calls, last >>

NoCall == [op |-> "none", args |-> << >>, result |-> << >>]

Apply(st, op) ==
    /\ star_map' = st.map
    /\ rng' = st.rng
    /\ panic' = st.panic
    /\ calls' = Append(calls, op)
    /\ last' = [op |-> op, args |-> << >>, result |-> << >>]

Count(s, op) == Cardinality({i \in 1..Len(s) : s[i] = op})

\* is_connected and astar take &self and leave the map as it is: the state
\* after one of them only records what it returned, and the run goes on from
\* the state before it.
Observed == last.op \in {"is_connected", "astar"}

\* a call can be made: the process has not panicked
Running == panic = "" /\ ~Observed

\* a mutating call: one more can be made
CanCall == Running /\ Len(calls) < MaxCalls

Populate ==
    /\ CanCall
    /\ Count(calls, "populate") < MaxPopulate
    /\ Apply(populate(Ctx(star_map, rng, "")), "populate")

GenerateLanes ==
    /\ CanCall
    /\ Count(calls, "generate_lanes") < MaxGenerate
    /\ \E seed \in SeedChoices(rng) :
          Apply(generate_lanes(Ctx(star_map, thread_rng(rng, seed), "")),
                "generate_lanes")

IsConnected ==
    /\ Running
    /\ LET r == is_connected(star_map)
       IN  /\ panic' = r.panic
           /\ last' = [op |-> "is_connected", args |-> << >>, result |-> << r.result >>]
    /\ UNCHANGED << star_map, rng, calls >>

\* the fleets given to astar: up to MaxFleet ships of either type, crippled or not
Ships == {Ship_new(t, c) : t \in ShipTypes, c \in BOOLEAN}

Fleets == UNION {[1..n -> Ships] : n \in 0..MaxFleet}

\* start and goal are systems of the map
Astar ==
    /\ Running
    /\ \E s \in DOMAIN star_map.systems, g \in DOMAIN star_map.systems,
          fleet \in Fleets :
          LET r == astar(star_map, star_map.systems[s], star_map.systems[g], fleet)
          IN  /\ panic' = r.panic
              /\ last' = [op |-> "astar", args |-> << s, g, fleet >>,
                          result |-> r.result]
    /\ UNCHANGED << star_map, rng, calls >>

Init ==
    /\ \E n \in MinPlayers..MaxPlayers, key \in 0..(HashKeys - 1) :
          star_map = StarMap_new(n, key)
    /\ rng = Unseeded
    /\ panic = ""
    /\ calls = << >>
    /\ last = NoCall

Next == Populate \/ GenerateLanes \/ IsConnected

Spec == Init /\ [][Next]_vars

(***************************************************************************)
(* Maps built by hand: add_system and add_lane are public, and so are the  *)
(* fields of System.  The systems added are System::new of the hexes of    *)
(* LaneHexes, whose identifiers for num_rings = MinPlayers are 0 (the      *)
(* hub_id of a map that was never populated), 2 and 3 (two neighbouring    *)
(* systems of the outer ring of a populated map).                          *)
(***************************************************************************)
LaneHexes == {Hex(0 - MinPlayers, 0 - MinPlayers), Hex(0 - MinPlayers, 0),
              Hex(0 - MinPlayers, 1)}

LaneIds == {to_id(hex, MinPlayers) : hex \in LaneHexes}

ApplyArgs(st, op, args) ==
    /\ star_map' = st.map
    /\ rng' = st.rng
    /\ panic' = st.panic
    /\ calls' = Append(calls, op)
    /\ last' = [op |-> op, args |-> args, result |-> << >>]

AddSystem ==
    /\ CanCall
    /\ Count(calls, "add_system") < MaxAddSystem
    /\ \E hex \in LaneHexes :
          LET system == System_new(hex, distance(hex, Hex(0, 0)),
                                   star_map.num_rings, None)
          IN  ApplyArgs(Ctx(add_system(star_map, system), rng, ""),
                        "add_system", << system.id >>)

AddLane ==
    /\ CanCall
    /\ Count(calls, "add_lane") < MaxAddLane
    /\ \E source \in LaneIds, destination \in LaneIds, lane_type \in LaneTypes :
          ApplyArgs(add_lane(Ctx(star_map, rng, ""), source, destination, lane_type),
                    "add_lane", << source, destination, lane_type >>)

NextLanes == Populate \/ GenerateLanes \/ AddSystem \/ AddLane \/ IsConnected

\* a new map of the smallest game
InitLanes ==
    /\ star_map = StarMap_new(MinPlayers, 0)
    /\ rng = Unseeded
    /\ panic = ""
    /\ calls = << >>
    /\ last = NoCall

SpecLanes == InitLanes /\ [][NextLanes]_vars

(***************************************************************************)
(* Fleet::can_traverse on its own: Fleet.ships is public, so any vector of *)
(* ships is a fleet.                                                       *)
(***************************************************************************)
TraverseFleets == UNION {[1..n -> Ships] : n \in 0..MaxShips}

CanTraverse ==
    /\ Running
    /\ \E fleet \in TraverseFleets, lane_type \in LaneTypes :
          last' = [op |-> "can_traverse", args |-> << fleet, lane_type >>,
                   result |-> << can_traverse(fleet, lane_type) >>]
    /\ UNCHANGED << star_map, rng, panic, calls >>

NextFleet == CanTraverse

SpecFleet == InitLanes /\ [][NextFleet]_vars

(***************************************************************************)
(* Path finding on the galaxies of the smallest game (MinPlayers).         *)
(***************************************************************************)
InitAstar ==
    /\ \E key \in 0..(HashKeys - 1) : star_map = StarMap_new(MinPlayers, key)
    /\ rng = Unseeded
    /\ panic = ""
    /\ calls = << >>
    /\ last = NoCall

NextAstar == Populate \/ GenerateLanes \/ Astar

SpecAstar == InitAstar /\ [][NextAstar]_vars

(***************************************************************************)
(* Reference notions for the properties, stated on the public fields       *)
(* `systems` and `lanes` (not on the petgraph graph).                      *)
(***************************************************************************)
LaneEnds(lane) == {lane.source, lane.destination}

LanesAt(map, id) == {i \in 1..Len(map.lanes) : id \in LaneEnds(map.lanes[i])}

OtherEnd(lane, id) == IF lane.source = id THEN lane.destination ELSE lane.source

MajorLanesAt(map, id) == {i \in LanesAt(map, id) : map.lanes[i].lane_type = "Major"}

GridAdjacent(map, a, b) == distance(map.systems[a].coords, map.systems[b].coords) = 1

HomeIds(map) == {id \in DOMAIN map.systems : map.systems[id].player # None}

NoDuplicateLanes(map) ==
    \A i, j \in 1..Len(map.lanes) :
        i # j => LaneEnds(map.lanes[i]) # LaneEnds(map.lanes[j])

\* the systems joined to `from` by a chain of lanes of the given types
ReachStep(map, types, x) ==
    LET touching == {i \in 1..Len(map.lanes) :
                        /\ map.lanes[i].lane_type \in types
                        /\ LaneEnds(map.lanes[i]) \cap x.seen # {}}
        new == UNION {LaneEnds(map.lanes[i]) : i \in touching} \ x.seen
    IN  [x EXCEPT !.seen = @ \cup new, !.grew = new # {}]

LaneReach(map, types, from) ==
    While(LAMBDA x : ~x.grew, LAMBDA x : ReachStep(map, types, x),
          [seen |-> {from}, grew |-> TRUE, panic |-> ""]).seen

\* populate() and then generate_lanes() have run, once each, on a new map
FirstGeneration == calls = << "populate", "generate_lanes" >> /\ panic = ""

(***************************************************************************)
(* C1: after populate() and generate_lanes() on a new map, whatever the    *)
(* player count and the random draws, is_connected() is true and every     *)
(* system is joined to the hub by a chain of lanes of any types.           *)
(***************************************************************************)
C1_Connected ==
    FirstGeneration =>
        /\ is_connected(star_map).result
        /\ LaneReach(star_map, LaneTypes, star_map.hub_id) = DOMAIN star_map.systems
        /\ last.op = "is_connected" => last.result = << TRUE >>

C1_Witness ==
    /\ FirstGeneration
    /\ star_map.player_count > 6
    /\ last.op = "is_connected" /\ last.result = << TRUE >>
    /\ \E i \in 1..Len(star_map.lanes) : star_map.lanes[i].lane_type = "Restricted"

(***************************************************************************)
(* C5: after populate() and generate_lanes() the hub has exactly 6 lanes,  *)
(* all Major, one to each of its 6 ring-1 neighbours; they are the lanes   *)
(* the hub pass made (the first six of the lane list), so no later pass    *)
(* added a lane to the hub or changed one.                                 *)
(***************************************************************************)
C5_HubLanes ==
    FirstGeneration =>
        LET hub == star_map.hub_id
            ring1 == {id \in DOMAIN star_map.systems : star_map.systems[id].ring = 1}
        IN  /\ star_map.systems[hub].ring = 0
            /\ LanesAt(star_map, hub) = 1..6
            /\ \A i \in 1..6 :
                  /\ star_map.lanes[i].lane_type = "Major"
                  /\ star_map.lanes[i].source = hub
                  /\ GridAdjacent(star_map, hub, star_map.lanes[i].destination)
            /\ {star_map.lanes[i].destination : i \in 1..6} = ring1
            /\ Cardinality(ring1) = 6
            /\ LET es == graph_edges(star_map.graph, star_map.system_id_to_node[hub])
               IN  Len(es) = 6 /\ \A k \in 1..6 : es[k].weight = "Major"

C5_Witness ==
    /\ FirstGeneration
    /\ Len(star_map.lanes) > 6
    /\ \E i \in 7..Len(star_map.lanes) : star_map.lanes[i].lane_type # "Major"
    /\ {star_map.system_id_to_node[star_map.lanes[i].destination] : i \in 1..6}
         = Range(graph_neighbors(star_map.graph,
                                 star_map.system_id_to_node[star_map.hub_id]))

(***************************************************************************)
(* C6: after populate() and generate_lanes() every player home system has  *)
(* exactly 3 Major lanes, each to a distinct grid-adjacent system.         *)
(***************************************************************************)
C6_HomeThreeMajor ==
    FirstGeneration =>
        \A h \in HomeIds(star_map) :
            /\ Cardinality(MajorLanesAt(star_map, h)) = 3
            /\ Cardinality({OtherEnd(star_map.lanes[i], h) :
                                i \in MajorLanesAt(star_map, h)}) = 3
            /\ \A i \in MajorLanesAt(star_map, h) :
                  GridAdjacent(star_map, h, OtherEnd(star_map.lanes[i], h))

(***************************************************************************)
(* C8: after populate() each player index in [0, N) owns exactly one       *)
(* system, exactly N systems have a player, every home system is on the    *)
(* outer ring (ring = N), and for N <= 6 every home system has exactly 3   *)
(* occupied neighbours.                                                    *)
(***************************************************************************)
OccupiedNeighbours(map, id) ==
    {other \in DOMAIN map.systems : GridAdjacent(map, id, other)}

C8_Homes ==
    (Count(calls, "populate") = 1 /\ panic = "") =>
        LET n == star_map.player_count IN
        /\ \A i \in 0..(n - 1) :
              Cardinality({id \in DOMAIN star_map.systems :
                              star_map.systems[id].player = Some(i)}) = 1
        /\ Cardinality(HomeIds(star_map)) = n
        /\ \A h \in HomeIds(star_map) :
              /\ star_map.systems[h].ring = n
              /\ star_map.systems[h].player[1] \in 0..(n - 1)
              /\ n <= 6 => Cardinality(OccupiedNeighbours(star_map, h)) = 3

C8_Witness ==
    /\ calls = << "populate" >> /\ panic = ""
    /\ star_map.player_count = 6
    /\ Cardinality(HomeIds(star_map)) = 6
    /\ \A h \in HomeIds(star_map) : Cardinality(OccupiedNeighbours(star_map, h)) = 3

(***************************************************************************)
(* C9: generate_lanes() called again on a map on which populate() and      *)
(* generate_lanes() have completed runs to completion, leaves every lane   *)
(* as it was (so the edge count too) and makes no duplicate edge.          *)
(***************************************************************************)
C9_RerunUnchanged ==
    [][ ( /\ panic = ""
          /\ Count(calls, "populate") >= 1
          /\ calls # << >>
          /\ calls[Len(calls)] = "generate_lanes"
          /\ calls' = Append(calls, "generate_lanes") )
        => ( /\ panic' = ""
             /\ star_map'.lanes = star_map.lanes
             /\ Len(star_map'.graph.edges) = Len(star_map.graph.edges)
             /\ NoDuplicateLanes(star_map') ) ]_vars

(***************************************************************************)
(* Reference notions for astar: the lanes a fleet can use, the cost of a   *)
(* path, and the least cost of any path (by relaxing every lane until      *)
(* nothing changes).                                                       *)
(***************************************************************************)
Passable(fleet) == {t \in LaneTypes : can_traverse(fleet, t)}

\* more than any path without a repeated system can cost
Unreached(map) == 3 * Cardinality(DOMAIN map.systems)

MinOf(S) == CHOOSE x \in S : \A y \in S : x <= y

RelaxAll(map, types, x) ==
    LET nd == [id \in DOMAIN map.systems |->
                  MinOf({x.d[id]} \cup
                        {x.d[OtherEnd(map.lanes[i], id)] + weight(map.lanes[i].lane_type) :
                            i \in {k \in LanesAt(map, id) :
                                      map.lanes[k].lane_type \in types}})]
    IN  [x EXCEPT !.d = nd, !.changed = nd # x.d]

\* least total lane weight from `from` to every system, Unreached(map) or more
\* where there is no path
LeastCost(map, types, from) ==
    While(LAMBDA x : ~x.changed, LAMBDA x : RelaxAll(map, types, x),
          [d |-> [id \in DOMAIN map.systems |->
                     IF id = from THEN 0 ELSE Unreached(map)],
           changed |-> TRUE, panic |-> ""]).d

\* the lanes joining a and b
LanesBetween(map, a, b) ==
    {i \in 1..Len(map.lanes) : LaneEnds(map.lanes[i]) = {a, b}}

RECURSIVE PathCost(_, _, _)
PathCost(map, path, k) ==
    IF k >= Len(path) THEN 0
    ELSE weight(map.lanes[CHOOSE i \in LanesBetween(map, path[k].id, path[k + 1].id) :
                              TRUE].lane_type)
         + PathCost(map, path, k + 1)

\* every step of the path is a lane the fleet can traverse
Traversable(map, path, fleet) ==
    \A k \in 1..(Len(path) - 1) :
        \E i \in LanesBetween(map, path[k].id, path[k + 1].id) :
            can_traverse(fleet, map.lanes[i].lane_type)

AstarReturned == last.op = "astar" /\ panic = ""

(***************************************************************************)
(* C2: on a generated map, when some path of lanes the fleet can traverse  *)
(* joins start and goal, astar returns a path of traversable lanes whose   *)
(* total lane weight is the least of all such paths.                       *)
(***************************************************************************)
C2_AstarOptimal ==
    (FirstGeneration /\ last.op = "astar") =>
        LET least == LeastCost(star_map, Passable(last.args[3]), last.args[1])[last.args[2]]
        IN  least < Unreached(star_map) =>
                /\ last.result # None
                /\ Traversable(star_map, last.result[1], last.args[3])
                /\ PathCost(star_map, last.result[1], 1) = least

\* a path that has to use a Minor or Restricted lane or a detour: it costs more
\* than the hex distance the heuristic promises
C2_Witness ==
    /\ FirstGeneration /\ last.op = "astar" /\ last.result # None
    /\ Len(last.result[1]) >= 4
    /\ PathCost(star_map, last.result[1], 1)
         > distance(star_map.systems[last.args[1]].coords,
                    star_map.systems[last.args[2]].coords)
    /\ PathCost(star_map, last.result[1], 1)
         = LeastCost(star_map, Passable(last.args[3]), last.args[1])[last.args[2]]

(***************************************************************************)
(* C3: a path astar returns runs from start to goal inclusive (the single  *)
(* system start when start = goal), each two consecutive systems joined by *)
(* a lane the fleet can traverse; with a Spacelift ship in the fleet no    *)
(* step is a Restricted lane.                                              *)
(***************************************************************************)
HasSpacelift(fleet) == \E i \in 1..Len(fleet) : fleet[i].ship_type = "Spacelift"

C3_PathValid ==
    (AstarReturned /\ last.result # None) =>
        LET path == last.result[1]
            fleet == last.args[3]
        IN  /\ Len(path) >= 1
            /\ path[1] = star_map.systems[last.args[1]]
            /\ path[Len(path)] = star_map.systems[last.args[2]]
            /\ last.args[1] = last.args[2] => Len(path) = 1
            /\ Traversable(star_map, path, fleet)
            /\ HasSpacelift(fleet) =>
                  \A k \in 1..(Len(path) - 1) :
                      \A i \in LanesBetween(star_map, path[k].id, path[k + 1].id) :
                          star_map.lanes[i].lane_type # "Restricted"

\* a Spacelift fleet is routed around a Restricted lane that joins two systems
\* of its path directly
C3_Witness ==
    /\ AstarReturned /\ last.result # None
    /\ HasSpacelift(last.args[3])
    /\ Len(last.result[1]) >= 3
    /\ \E i \in 1..Len(star_map.lanes) :
          /\ star_map.lanes[i].lane_type = "Restricted"
          /\ LaneEnds(star_map.lanes[i]) \subseteq {last.result[1][k].id : k \in 1..Len(last.result[1])}

(***************************************************************************)
(* C4: astar terminates without a panic, and returns None exactly when no  *)
(* path of lanes the fleet can traverse joins start and goal.              *)
(***************************************************************************)
C4_NoPathIff ==
    last.op = "astar" =>
        /\ panic = ""
        /\ (last.result = None) <=>
              (last.args[2] \notin
                  LaneReach(star_map, Passable(last.args[3]), last.args[1]))

\* no path for the fleet although the galaxy is connected
C4_Witness ==
    /\ FirstGeneration /\ last.op = "astar" /\ last.result = None
    /\ is_connected(star_map).result
    /\ last.args[2] \in LaneReach(star_map, LaneTypes, last.args[1])

\* no identifier was given to add_system twice: every node of the graph is
\* the node of one system
DistinctIds(map) == map.graph.nodes = Cardinality(DOMAIN map.systems)

\* the step is a call of add_lane(a, b, t) that returns, made on a map of
\* distinct identifiers that already has a lane a-b or b-a
AddLaneOnExisting ==
    /\ calls' = Append(calls, "add_lane")
    /\ panic' = ""
    /\ DistinctIds(star_map)
    /\ LanesBetween(star_map, last'.args[1], last'.args[2]) # {}

(***************************************************************************)
(* C7: on a map whose systems have distinct identifiers the lane list      *)
(* never holds two lanes for the same unordered pair of systems, whatever  *)
(* add_lane calls and generate_lanes passes were made; and add_lane(a, b,  *)
(* t) on a pair that already has a lane, in either direction and of any    *)
(* type, changes neither the lane list nor the graph.                      *)
(***************************************************************************)
C7_NoDuplicateLane ==
    /\ [](DistinctIds(star_map) => NoDuplicateLanes(star_map))
    /\ [][AddLaneOnExisting =>
             /\ star_map'.lanes = star_map.lanes
             /\ star_map'.graph = star_map.graph]_vars

\* add_lane(a, b, t) has just returned on a pair whose lane runs b -> a with
\* another type
C7_Witness ==
    /\ last.op = "add_lane" /\ panic = ""
    /\ DistinctIds(star_map)
    /\ Len(star_map.lanes) >= 1
    /\ \E i \in 1..Len(star_map.lanes) :
          /\ star_map.lanes[i].source = last.args[2]
          /\ star_map.lanes[i].destination = last.args[1]
          /\ star_map.lanes[i].source # star_map.lanes[i].destination
          /\ star_map.lanes[i].lane_type # last.args[3]

(***************************************************************************)
(* C10: on a map that contains the hub and whose systems have distinct     *)
(* identifiers, is_connected() returns true exactly when every system can  *)
(* be reached from the hub along lanes of any type.                        *)
(***************************************************************************)
C10_IsConnectedIff ==
    (/\ last.op = "is_connected"
     /\ star_map.hub_id \in DOMAIN star_map.systems
     /\ DistinctIds(star_map)) =>
        /\ panic = ""
        /\ last.result[1] <=>
              (LaneReach(star_map, LaneTypes, star_map.hub_id)
                  = DOMAIN star_map.systems)

\* true on a hand-built map of several systems whose lane was added towards
\* the hub
C10_Witness ==
    /\ last.op = "is_connected" /\ last.result = << TRUE >>
    /\ DistinctIds(star_map)
    /\ Count(calls, "populate") = 0
    /\ Cardinality(DOMAIN star_map.systems) >= 2
    /\ \E i \in 1..Len(star_map.lanes) :
          /\ star_map.lanes[i].destination = star_map.hub_id
          /\ star_map.lanes[i].source # star_map.hub_id

\* the hexes within hex distance R of the origin, by the definition of the
\* distance
HexDisk(R) ==
    {h \in {Hex(q, r) : q \in (0 - R)..R, r \in (0 - R)..R} :
        distance(h, Hex(0, 0)) <= R}

\* populate() has run once, on a new map, and nothing else has added systems
PopulatedOnce ==
    /\ panic = ""
    /\ calls # << >> /\ calls[1] = "populate"
    /\ Count(calls, "populate") = 1
    /\ Count(calls, "add_system") = 0

(***************************************************************************)
(* C11: after populate() on a new map with player count N (R = N) the map  *)
(* holds exactly one system for every hex within distance R of the origin, *)
(* 3R^2 + 3R + 1 systems in all, 6R of them in ring R; the identifiers are *)
(* pairwise distinct: to_id(hex, R) takes different values, all in         *)
(* [0, (2R+1)^2), on different hexes within radius R.                      *)
(***************************************************************************)
C11_OneSystemPerHex ==
    PopulatedOnce =>
        LET R == star_map.num_rings
            ids == DOMAIN star_map.systems
            disk == HexDisk(R)
        IN  /\ R = star_map.player_count
            /\ {star_map.systems[id].coords : id \in ids} = disk
            /\ Cardinality(ids) = 3 * R * R + 3 * R + 1
            /\ Cardinality(disk) = 3 * R * R + 3 * R + 1
            /\ star_map.graph.nodes = 3 * R * R + 3 * R + 1
            /\ Cardinality({id \in ids : star_map.systems[id].ring = R}) = 6 * R
            /\ \A id \in ids :
                  /\ star_map.systems[id].id = id
                  /\ id = to_id(star_map.systems[id].coords, R)
                  /\ star_map.systems[id].ring
                       = distance(star_map.systems[id].coords, Hex(0, 0))
            /\ Cardinality({to_id(h, R) : h \in disk}) = Cardinality(disk)
            /\ \A h \in disk : to_id(h, R) \in 0..((2 * R + 1) * (2 * R + 1) - 1)
            /\ Range(within_radius(Hex(0, 0), R)) = disk
            /\ Len(within_radius(Hex(0, 0), R)) = Cardinality(disk)

\* a populated galaxy of more than the smallest radius, where two rows of the
\* grid would overlap under a shorter stride
C11_Witness ==
    /\ calls = << "populate" >> /\ panic = ""
    /\ star_map.num_rings >= 3
    /\ Cardinality(DOMAIN star_map.systems) >= 37
    /\ \E a, b \in DOMAIN star_map.systems :
          /\ star_map.systems[a].coords.q + 1 = star_map.systems[b].coords.q
          /\ star_map.systems[a].coords.r = star_map.num_rings
          /\ star_map.systems[b].coords.r = 0 - star_map.num_rings

\* every ship of the fleet is an uncrippled Military ship
AllFitMilitary(fleet) ==
    \A i \in 1..Len(fleet) :
        fleet[i].ship_type = "Military" /\ ~fleet[i].is_crippled

(***************************************************************************)
(* C12: can_traverse is true for Major and Minor lanes whatever the fleet; *)
(* for a Restricted lane it is true exactly when every ship of the fleet   *)
(* is an uncrippled Military ship.  So a fleet of uncrippled Military      *)
(* ships crosses every lane type, and a fleet with a Spacelift ship or a   *)
(* crippled Military ship does not cross a Restricted lane.                *)
(***************************************************************************)
C12_CanTraverse ==
    last.op = "can_traverse" =>
        LET fleet == last.args[1]
            lane_type == last.args[2]
            result == last.result[1]
        IN  /\ lane_type \in {"Major", "Minor"} => result
            /\ lane_type = "Restricted" => (result <=> AllFitMilitary(fleet))
            /\ AllFitMilitary(fleet) => result
            /\ (\E i \in 1..Len(fleet) :
                    \/ fleet[i].ship_type = "Spacelift"
                    \/ fleet[i].ship_type = "Military" /\ fleet[i].is_crippled)
                 => (lane_type = "Restricted" => ~result)

\* one crippled Military ship among uncrippled ones stops the fleet at a
\* Restricted lane
C12_Witness ==
    /\ last.op = "can_traverse"
    /\ last.args[2] = "Restricted"
    /\ last.result = << FALSE >>
    /\ Len(last.args[1]) = 3
    /\ \A i \in 1..3 : last.args[1][i].ship_type = "Military"
    /\ Cardinality({i \in 1..3 : last.args[1][i].is_crippled}) = 1

(***************************************************************************)
(* C13: after any sequence of add_system, populate, add_lane and           *)
(* generate_lanes calls that returned, the graph has exactly one node per  *)
(* entry of systems, system_id_to_node maps the system ids one-to-one onto *)
(* the graph nodes, every graph node resolves back to a system id through  *)
(* get_system_id_by_node_index, and the lane list has one entry per graph  *)
(* edge.                                                                   *)
(***************************************************************************)
C13_Synchronised ==
    panic = "" =>
        LET nodes == 0..(star_map.graph.nodes - 1)
            ids == DOMAIN star_map.systems
        IN  /\ star_map.graph.nodes = Cardinality(ids)
            /\ DOMAIN star_map.system_id_to_node = ids
            /\ {star_map.system_id_to_node[id] : id \in ids} = nodes
            /\ \A a, b \in ids :
                  star_map.system_id_to_node[a] = star_map.system_id_to_node[b] => a = b
            /\ \A n \in nodes :
                  /\ NodeIds(star_map, n) # {}
                  /\ get_system_id_by_node_index(star_map, n) \in ids
            /\ Len(star_map.lanes) = Len(star_map.graph.edges)

====
